---- MODULE Spec2Model ----
(***************************************************************************)
(* Kokoro-TTS-Local: the interactive front-end (src/tts_demo.py) and the   *)
(* web front-end (src/gradio_interface.py).                                *)
(*                                                                         *)
(* Times are in seconds.  Speeds are in tenths (0.5 is 5, 2.0 is 20).      *)
(* A string the code indexes (a voice identifier) is a sequence of         *)
(* one-character strings.  A tensor is a record of its shape class and its *)
(* samples along dimension 0.                                              *)
(***************************************************************************)
EXTENDS Integers, Sequences, FiniteSets, TLC

\* ------------------------------------------------------------ constants

\* tts_demo.py
DefaultMaxRetries == 3
DefaultRetryDelay == 1
max_gen_time == 300
max_segment_time == 60
MaxTextLen == 10000
DefaultTextLen == 43
MinSpeed == 5
MaxSpeed == 20
DefaultSpeed == 10
\* gradio_interface.py
WebSpeed == 10
Bitrate == 192

\* ------------------------------------------------------------ bounds

\* largest max_retries save_audio_with_retry is called with directly
MaxRetries == 4
\* segments one generator yields when the delays are the inputs of interest
MaxTimedSegments == 6
\* segments one generator yields when the audio is the input of interest
MaxSegments == 3
\* timers left armed beyond which no further request is started
MaxArmed == 2
\* longest voice identifier handed to get_pipeline_for_voice
MaxVoiceLen == 4
\* request threads inside get_pipeline_for_voice at once
MaxThreads == 2
\* calls of get_pipeline_for_voice the threads start, all together
MaxCalls == 3

VARIABLES
    \* ---- tts_demo.py: main
    pc,                  \* position of the interactive session
    model,               \* the local name model: "unbound", "built", "deleted"
    voices_cache,        \* "unbound", "none", "empty", "list"
    text_len,            \* len(text) of the current request
    speed,               \* speed of the current request, in tenths
    all_audio,           \* tensors accumulated by the current request
    clock,               \* the latest reading of time.time()
    start_time,
    segment_start_time,
    current_time,
    generation_complete,
    watchdogs,           \* timers started and not cancelled
    final_audio,
    \* ---- tts_demo.py: save_audio_with_retry
    max_retries,
    retry_delay,
    attempt,
    save_result,         \* "none" while running, then "true" or "false"
    written,             \* what the current save has put in the output file
                         \* (NoAudio: nothing)
    ioLog,               \* sf.write and time.sleep calls of the current save, in order
    \* ---- tts_demo.py: what an observer of main records
    pulled,              \* audio of the segments the generator has yielded, in order
    elapsed,             \* seconds since the request read start_time
    arrival_elapsed,     \* elapsed when the latest segment arrived
    last_wait,           \* seconds the latest segment took to arrive after the
                         \* previous loop body ended
    last_gap,            \* seconds between the latest arrival and the arrival of the
                         \* latest segment that passed both checks before it
    prev_arrival,        \* elapsed at the arrival of the latest segment that passed
    loop_exit,           \* how the segment loop ended
    outcome,             \* how the latest request ended
    engine_call,         \* arguments of the latest engine invocation, either front-end
    cleanup_runs,        \* times the finally block has run
    attempted,           \* cleanup steps attempted
    failed,              \* cleanup steps that raised
    escaped,             \* an exception left main
    \* ---- gradio_interface.py
    pipelines,           \* the dictionary pipelines: EngineKey -> handle
    constructions,       \* EngineKey -> KPipeline objects constructed for it
    voice_name,          \* argument of the latest call
    lang_code,           \* key the latest get_pipeline_for_voice resolved
    handle,              \* handle the latest get_pipeline_for_voice returned
    constructed,         \* the latest get_pipeline_for_voice constructed a KPipeline
    web_pc,              \* "idle", or "stream" inside the for loop of a request
    fmt,                 \* fmt of the latest generate_tts_with_logs
    web_audio,           \* all_audio of the latest generate_tts_with_logs
    web_pulled,          \* results its generator yielded
    web_final,           \* tensor handed to sf.write (NoAudio: none)
    web_writes,          \* paths sf.write and export created in the latest request
    conv_args,           \* arguments of the latest convert_audio call
    conv_ret,            \* what it returned (NoPath: nothing)
    codec_calls,         \* AudioSegment calls of the latest convert_audio
    web_result,          \* path the latest request returned (NoPath is "")
    web_outcome,         \* how the latest generate_tts_with_logs ended
    \* ---- get_pipeline_for_voice run by concurrent request threads
    thr,                 \* thread -> its position in the function and its locals
    calls,               \* calls of the function started so far
    overlapped,          \* EngineKey -> two calls for the key were in progress at once
    stores               \* handles assigned into pipelines, in the order assigned

mainVars == <<pc, model, voices_cache, text_len, speed, all_audio, clock,
              start_time, segment_start_time, current_time, generation_complete,
              watchdogs, final_audio>>
saveVars == <<max_retries, retry_delay, attempt, save_result, written, ioLog>>
obsVars == <<pulled, elapsed, arrival_elapsed, last_wait, last_gap, prev_arrival,
             loop_exit, outcome, cleanup_runs, attempted, failed, escaped>>
routerVars == <<pipelines, constructions, voice_name, lang_code, handle,
                constructed>>
reqVars == <<web_pc, fmt, web_audio, web_pulled, web_final, web_writes, conv_args,
             conv_ret, codec_calls, web_result, web_outcome>>
concVars == <<thr, calls, overlapped, stores>>
webVars == <<routerVars, reqVars, concVars>>
vars == <<mainVars, saveVars, obsVars, engine_call, webVars>>

\* ------------------------------------------------------------ tensors

NoAudio == [shape |-> "none", data |-> <<>>]

\* What the engine may put in segment i: no audio, a 1-D tensor (of two samples
\* for an odd i, of one for an even i), or a 2-D tensor, which torch.cat cannot
\* join to a 1-D one.  The samples of segment i are i.
AudioKinds == {"none", "mono", "wide"}

SegmentAudio(i, kind) ==
    CASE kind = "none" -> NoAudio
      [] kind = "mono" -> [shape |-> "1d", data |-> [j \in 1..((i % 2) + 1) |-> i]]
      [] kind = "wide" -> [shape |-> "2d", data |-> <<i>>]

\* variant: an accumulation that puts the newest buffer first
Accumulate_Prepends(acc, audio) ==
    IF audio # NoAudio THEN <<audio>> \o acc ELSE acc

\* tts_demo.py 208-212, gradio_interface.py 184-189: a segment's audio is appended
\* when it is not None
Accumulate(acc, audio) ==
    IF audio # NoAudio THEN Append(acc, audio) ELSE acc

RECURSIVE Flatten(_)
Flatten(bufs) ==
    IF bufs = <<>> THEN <<>> ELSE Head(bufs).data \o Flatten(Tail(bufs))

\* variant: a concatenation that loses the first buffer
TorchCat_DropsFirst(bufs) ==
    IF \E i, j \in 1..Len(bufs) : bufs[i].shape # bufs[j].shape
    THEN [ok |-> FALSE, val |-> NoAudio]
    ELSE [ok |-> TRUE, val |-> [shape |-> bufs[1].shape, data |-> Flatten(Tail(bufs))]]

\* torch.cat(bufs, dim=0) of a non-empty list: RuntimeError when the shapes differ
TorchCat(bufs) ==
    IF \E i, j \in 1..Len(bufs) : bufs[i].shape # bufs[j].shape
    THEN [ok |-> FALSE, val |-> NoAudio]
    ELSE [ok |-> TRUE, val |-> [shape |-> bufs[1].shape, data |-> Flatten(bufs)]]

\* ------------------------------------------------------------ save_audio_with_retry

WriteEv(ok) == [ev |-> "write", arg |-> IF ok THEN 1 ELSE 0]
SleepEv(d) == [ev |-> "sleep", arg |-> d]

\* variant: a retry test that sleeps after the last attempt too
ShouldRetry_SleepsAfterLast(a, m) == a < m

\* line 81: attempt < max_retries - 1
ShouldRetry(a, m) == a < m - 1

\* One iteration of the for loop of save_audio_with_retry (or, when range() is
\* exhausted or empty, the final return False), ok being whether sf.write succeeds.
SaveAttempt(ok) ==
    /\ pc = "write"
    /\ IF attempt >= max_retries
       THEN /\ save_result' = "false"
            /\ pc' = "saved"
            /\ UNCHANGED <<attempt, written, ioLog>>
       ELSE IF ok
       THEN /\ written' = final_audio
            /\ ioLog' = Append(ioLog, WriteEv(TRUE))
            /\ save_result' = "true"
            /\ pc' = "saved"
            /\ UNCHANGED attempt
       ELSE IF ShouldRetry(attempt, max_retries)
       THEN /\ ioLog' = ioLog \o <<WriteEv(FALSE), SleepEv(retry_delay)>>
            /\ attempt' = attempt + 1
            /\ UNCHANGED <<save_result, pc, written>>
       ELSE /\ ioLog' = Append(ioLog, WriteEv(FALSE))
            /\ save_result' = "false"
            /\ pc' = "saved"
            /\ UNCHANGED <<attempt, written>>
    /\ UNCHANGED <<model, voices_cache, text_len, speed, all_audio, clock,
                   start_time, segment_start_time, current_time, generation_complete,
                   watchdogs, final_audio, max_retries, retry_delay>>
    /\ UNCHANGED <<obsVars, engine_call, webVars>>

\* ------------------------------------------------------------ main: the menu

EngineCall(front, n, sp) == [front |-> front, text_len |-> n, speed |-> sp]
NoCall == EngineCall("none", 0, 0)

\* What the user types at the speed prompt: nothing, a number (in tenths), or text
\* float() rejects
EmptyInput == [kind |-> "empty", val |-> 0]
Num(x) == [kind |-> "num", val |-> x]
BadInput == [kind |-> "bad", val |-> 0]

\* line 62: 0.5 <= speed <= 2.0
SpeedInRange(x) == MinSpeed <= x /\ x <= MaxSpeed

\* get_speed(): the loop runs until an input is accepted; inputs is what the user
\* types, in order, its last entry being the first accepted one
RECURSIVE get_speed(_)
get_speed(inputs) ==
    LET e == Head(inputs) IN
    IF e.kind = "empty" THEN DefaultSpeed
    ELSE IF e.kind = "num" /\ SpeedInRange(e.val) THEN e.val
    ELSE get_speed(Tail(inputs))

\* get_text_input(): the length of the text, raw being the length typed
get_text_input(raw) == IF raw = 0 THEN DefaultTextLen ELSE raw

\* line 137: len(text) > 10000
TooLong(n) == n > MaxTextLen

\* Lines 94-110.  torch.cuda.is_available() raising is caught at line 98 and only
\* decides the device; ok is whether build_model returns rather than raises.
BuildModel(ok) ==
    /\ pc = "start"
    /\ IF ok
       THEN /\ model' = "built"
            /\ voices_cache' = "none"
            /\ pc' = "menu"
       ELSE /\ pc' = "cleanup"
            /\ UNCHANGED <<model, voices_cache>>
    /\ UNCHANGED <<text_len, speed, all_audio, clock, start_time,
                   segment_start_time, current_time, generation_complete, watchdogs,
                   final_audio>>
    /\ UNCHANGED <<saveVars, obsVars, engine_call, webVars>>

\* Choice "1", lines 115-120; res is what list_available_voices() does
ListVoices(res) ==
    /\ pc = "menu"
    /\ IF res = "raise"
       THEN /\ pc' = "cleanup"
            /\ UNCHANGED voices_cache
       ELSE /\ voices_cache' = res
            /\ UNCHANGED pc
    /\ UNCHANGED <<model, text_len, speed, all_audio, clock, start_time,
                   segment_start_time, current_time, generation_complete, watchdogs,
                   final_audio>>
    /\ UNCHANGED <<saveVars, obsVars, engine_call, webVars>>

\* Any other choice, lines 271-272
InvalidChoice ==
    /\ pc = "menu"
    /\ UNCHANGED vars

\* Choice "3", lines 267-269
ExitChoice ==
    /\ pc = "menu"
    /\ pc' = "cleanup"
    /\ UNCHANGED <<model, voices_cache, text_len, speed, all_audio, clock,
                   start_time, segment_start_time, current_time, generation_complete,
                   watchdogs, final_audio>>
    /\ UNCHANGED <<saveVars, obsVars, engine_call, webVars>>

\* An exception in the menu loop outside the try of line 162 (input() at end of
\* file, say): the except clause of line 274
MenuRaises ==
    /\ pc = "menu"
    /\ pc' = "cleanup"
    /\ UNCHANGED <<model, voices_cache, text_len, speed, all_audio, clock,
                   start_time, segment_start_time, current_time, generation_complete,
                   watchdogs, final_audio>>
    /\ UNCHANGED <<saveVars, obsVars, engine_call, webVars>>

\* Choice "2", lines 122-187, up to the for loop.  lv is what
\* list_available_voices() returns if it is called, raw the length typed as text,
\* sp_in what is typed at the speed prompt, voice_exists whether the voice file
\* exists, t0 what time.time() reads, init_ok whether model(...) returns rather than
\* raises.
Generate(lv, raw, sp_in, voice_exists, t0, init_ok) ==
    LET cache == IF voices_cache = "none" THEN lv ELSE voices_cache
        n == get_text_input(raw)
        sp == get_speed(sp_in) IN
    /\ pc = "menu"
    /\ watchdogs < MaxArmed
    /\ voices_cache' = cache
    /\ IF cache = "empty"
       THEN /\ outcome' = "no_voices"
            /\ pc' = "finished"
            /\ UNCHANGED <<text_len, speed, all_audio, clock, start_time,
                           segment_start_time, current_time, generation_complete,
                           watchdogs, engine_call>>
       ELSE IF TooLong(n)
       THEN /\ outcome' = "rejected"
            /\ pc' = "finished"
            /\ text_len' = n
            /\ UNCHANGED <<speed, all_audio, clock, start_time, segment_start_time,
                           current_time, generation_complete, watchdogs, engine_call>>
       ELSE IF ~voice_exists
       THEN /\ outcome' = "no_voice_file"
            /\ pc' = "finished"
            /\ text_len' = n
            /\ speed' = sp
            /\ all_audio' = <<>>
            /\ UNCHANGED <<clock, start_time, segment_start_time, current_time,
                           generation_complete, watchdogs, engine_call>>
       ELSE /\ text_len' = n
            /\ speed' = sp
            /\ all_audio' = <<>>
            /\ clock' = t0
            /\ start_time' = t0
            /\ segment_start_time' = t0
            /\ current_time' = t0
            /\ generation_complete' = FALSE
            /\ engine_call' = EngineCall("cli", n, sp)
            /\ IF init_ok
               THEN /\ watchdogs' = watchdogs + 1
                    /\ outcome' = "running"
                    /\ pc' = "consume"
               ELSE /\ outcome' = "init_error"
                    /\ pc' = "finished"
                    /\ UNCHANGED watchdogs
    /\ UNCHANGED <<model, final_audio>>
    /\ UNCHANGED <<saveVars, pulled, elapsed, arrival_elapsed, last_wait, last_gap,
                   prev_arrival, loop_exit, cleanup_runs, attempted, failed, escaped,
                   webVars>>

\* Control is back at print_menu(), line 113.  What the request bound (and what was
\* recorded of it) is dead there: each name is bound again before it is next read.
\* Only generation_complete stays live, in the closure of a timer left armed.
ReturnToMenu ==
    /\ pc = "finished"
    /\ pc' = "menu"
    /\ text_len' = 0
    /\ speed' = 0
    /\ all_audio' = <<>>
    /\ clock' = 0
    /\ start_time' = 0
    /\ segment_start_time' = 0
    /\ current_time' = 0
    /\ final_audio' = NoAudio
    /\ max_retries' = 0
    /\ retry_delay' = 0
    /\ attempt' = 0
    /\ save_result' = "none"
    /\ written' = NoAudio
    /\ ioLog' = <<>>
    /\ pulled' = <<>>
    /\ elapsed' = 0
    /\ arrival_elapsed' = 0
    /\ last_wait' = 0
    /\ last_gap' = 0
    /\ prev_arrival' = 0
    /\ loop_exit' = "none"
    /\ outcome' = "none"
    /\ engine_call' = NoCall
    /\ UNCHANGED <<model, voices_cache, generation_complete, watchdogs>>
    /\ UNCHANGED <<cleanup_runs, attempted, failed, escaped, webVars>>

\* ------------------------------------------------------------ main: the segment loop

\* variant: a total budget that already stops at exactly max_gen_time
TotalExceeded_Inclusive(now, start) == now - start >= max_gen_time

\* line 194: current_time - start_time > max_gen_time
TotalExceeded(now, start) == now - start > max_gen_time

\* lines 199-200: current_time - segment_start_time > max_segment_time
SegmentExceeded(now, seg_start) == now - seg_start > max_segment_time

\* variant: a loop that never resets the segment timer
NextSegmentStart_NoReset(now, seg_start) == seg_start

\* line 205: segment_start_time = current_time
NextSegmentStart(now, seg_start) == now

\* Lines 218-220, after the loop
AfterLoop ==
    /\ generation_complete' = TRUE
    /\ watchdogs' = watchdogs - 1
    /\ pc' = "combine"

\* Lines 191-216: the generator yields segment number Len(pulled) + 1 after d
\* seconds and the loop body runs, taking p seconds when it runs to its end
ConsumeSegment(d, p, kind) ==
    LET now == clock + d
        audio == SegmentAudio(Len(pulled) + 1, kind) IN
    /\ pc = "consume"
    /\ current_time' = now
    /\ pulled' = Append(pulled, audio)
    /\ arrival_elapsed' = elapsed + d
    /\ last_wait' = d
    /\ last_gap' = elapsed + d - prev_arrival
    /\ IF TotalExceeded(now, start_time)
       THEN /\ loop_exit' = "total"
            /\ AfterLoop
            /\ clock' = now
            /\ elapsed' = elapsed + d
            /\ UNCHANGED <<segment_start_time, all_audio, prev_arrival>>
       ELSE IF SegmentExceeded(now, segment_start_time)
       THEN /\ loop_exit' = "segment"
            /\ AfterLoop
            /\ clock' = now
            /\ elapsed' = elapsed + d
            /\ UNCHANGED <<segment_start_time, all_audio, prev_arrival>>
       ELSE /\ segment_start_time' = NextSegmentStart(now, segment_start_time)
            /\ all_audio' = Accumulate(all_audio, audio)
            /\ clock' = now + p
            /\ elapsed' = elapsed + d + p
            /\ prev_arrival' = elapsed + d
            /\ UNCHANGED <<loop_exit, pc, generation_complete, watchdogs>>
    /\ UNCHANGED <<model, voices_cache, text_len, speed, start_time,
                   final_audio>>
    /\ UNCHANGED <<saveVars, outcome, cleanup_runs, attempted, failed,
                   escaped, engine_call, webVars>>

\* The generator is exhausted: lines 218-220
StreamEnd ==
    /\ pc = "consume"
    /\ loop_exit' = "end"
    /\ AfterLoop
    /\ UNCHANGED <<model, voices_cache, text_len, speed, all_audio, clock,
                   start_time, segment_start_time, current_time, final_audio>>
    /\ UNCHANGED <<saveVars, pulled, elapsed, arrival_elapsed, last_wait, last_gap,
                   prev_arrival, outcome, cleanup_runs, attempted, failed,
                   escaped, engine_call, webVars>>

\* The generator (or the loop body) raises: one of the except clauses of lines
\* 222-237 prints it, and lines 218-220 are skipped
StreamError ==
    /\ pc = "consume"
    /\ loop_exit' = "error"
    /\ pc' = "combine"
    /\ UNCHANGED <<model, voices_cache, text_len, speed, all_audio, clock,
                   start_time, segment_start_time, current_time, generation_complete,
                   watchdogs, final_audio>>
    /\ UNCHANGED <<saveVars, pulled, elapsed, arrival_elapsed, last_wait, last_gap,
                   prev_arrival, outcome, cleanup_runs, attempted, failed,
                   escaped, engine_call, webVars>>

\* ------------------------------------------------------------ main: saving

\* line 243: len(all_audio) == 1
UseSingle(bufs) == Len(bufs) = 1

\* Lines 239-253, up to the call of save_audio_with_retry; numpy_ok is whether
\* final_audio.numpy() returns rather than raises
Combine(numpy_ok) ==
    LET cat == TorchCat(all_audio) IN
    /\ pc = "combine"
    /\ IF all_audio = <<>>
       THEN /\ outcome' = "empty"
            /\ pc' = "finished"
            /\ UNCHANGED <<final_audio, saveVars>>
       ELSE IF ~UseSingle(all_audio) /\ ~cat.ok
       THEN /\ outcome' = "concat_error"
            /\ pc' = "finished"
            /\ UNCHANGED <<final_audio, saveVars>>
       ELSE /\ final_audio' = IF UseSingle(all_audio) THEN all_audio[1] ELSE cat.val
            /\ IF numpy_ok
               THEN /\ pc' = "write"
                    /\ max_retries' = DefaultMaxRetries
                    /\ retry_delay' = DefaultRetryDelay
                    /\ attempt' = 0
                    /\ save_result' = "none"
                    /\ written' = NoAudio
                    /\ ioLog' = <<>>
                    /\ UNCHANGED outcome
               ELSE /\ outcome' = "processing_error"
                    /\ pc' = "finished"
                    /\ UNCHANGED saveVars
    /\ UNCHANGED <<model, voices_cache, text_len, speed, all_audio, clock,
                   start_time, segment_start_time, current_time, generation_complete,
                   watchdogs>>
    /\ UNCHANGED <<pulled, elapsed, arrival_elapsed, last_wait, last_gap,
                   prev_arrival, loop_exit, cleanup_runs, attempted, failed,
                   escaped, engine_call, webVars>>

\* Lines 253-261: save_audio_with_retry has returned
AfterSave ==
    /\ pc = "saved"
    /\ outcome' = IF save_result = "true" THEN "saved" ELSE "save_failed"
    /\ pc' = "finished"
    /\ UNCHANGED saveVars
    /\ UNCHANGED <<model, voices_cache, text_len, speed, all_audio, clock,
                   start_time, segment_start_time, current_time, generation_complete,
                   watchdogs, final_audio>>
    /\ UNCHANGED <<pulled, elapsed, arrival_elapsed, last_wait, last_gap,
                   prev_arrival, loop_exit, cleanup_runs, attempted, failed,
                   escaped, engine_call, webVars>>

\* ------------------------------------------------------------ main: cleanup

\* The steps of the finally block, each in a try of its own except "cuda_probe",
\* the call of torch.cuda.is_available() at line 324
ModelSteps == {"voices", "attrs", "del_model"}
GuardedSteps == ModelSteps \cup {"voice_cache", "empty_cache", "patches", "gc"}
Probes == {"available", "unavailable", "raises"}

\* The steps whose condition holds (lines 284, 315, 324), probe being what
\* torch.cuda.is_available() does
Applicable(probe) ==
    (IF model = "built" THEN ModelSteps ELSE {})
    \cup (IF voices_cache \in {"list", "empty"} THEN {"voice_cache"} ELSE {})
    \cup (IF probe = "available" THEN {"empty_cache"} ELSE {})
    \cup {"patches", "gc"}

\* Lines 278-353: the finally block; raising is the set of steps that raise when
\* attempted.  torch.cuda.is_available() raising (as line 98 expects it may) is
\* caught at line 350 only, past the steps after it.
Cleanup(raising, probe) ==
    LET tried == IF probe = "raises"
                 THEN (Applicable(probe) \ {"patches", "gc"}) \cup {"cuda_probe"}
                 ELSE Applicable(probe) \cup {"cuda_probe"} IN
    /\ pc = "cleanup"
    /\ pc' = "done"
    /\ cleanup_runs' = cleanup_runs + 1
    /\ attempted' = tried
    /\ failed' = (raising \cap tried)
                  \cup (IF probe = "raises" THEN {"cuda_probe"} ELSE {})
    /\ escaped' = FALSE
    /\ model' = IF model = "built" /\ "del_model" \notin raising THEN "deleted" ELSE model
    /\ voices_cache' = IF voices_cache \in {"list", "empty"} /\ "voice_cache" \notin raising
                       THEN "none" ELSE voices_cache
    /\ UNCHANGED <<text_len, speed, all_audio, clock, start_time,
                   segment_start_time, current_time, generation_complete, watchdogs,
                   final_audio>>
    /\ UNCHANGED <<saveVars, pulled, elapsed, arrival_elapsed, last_wait, last_gap,
                   prev_arrival, loop_exit, outcome, engine_call, webVars>>

\* ------------------------------------------------------------ get_pipeline_for_voice

UpperCase == <<"A", "B", "E", "F", "H", "I", "J", "M", "P", "Z">>
LowerCase == <<"a", "b", "e", "f", "h", "i", "j", "m", "p", "z">>

\* str.lower() on one character
Lower(c) ==
    IF \E i \in DOMAIN UpperCase : UpperCase[i] = c
    THEN LowerCase[CHOOSE i \in DOMAIN UpperCase : UpperCase[i] = c]
    ELSE c

LANG_MAP ==
    (<<"a", "f", "_">> :> "a") @@ (<<"a", "m", "_">> :> "a") @@
    (<<"b", "f", "_">> :> "b") @@ (<<"b", "m", "_">> :> "b") @@
    (<<"j", "f", "_">> :> "j") @@ (<<"j", "m", "_">> :> "j") @@
    (<<"z", "f", "_">> :> "z") @@ (<<"z", "m", "_">> :> "z") @@
    (<<"e", "f", "_">> :> "e") @@ (<<"e", "m", "_">> :> "e") @@
    (<<"f", "f", "_">> :> "f") @@
    (<<"h", "f", "_">> :> "h") @@ (<<"h", "m", "_">> :> "h") @@
    (<<"i", "f", "_">> :> "i") @@ (<<"i", "m", "_">> :> "i") @@
    (<<"p", "f", "_">> :> "p") @@ (<<"p", "m", "_">> :> "p")

DefaultKey == "a"
EngineKeys == {LANG_MAP[p] : p \in DOMAIN LANG_MAP} \cup {DefaultKey}

Min(a, b) == IF a < b THEN a ELSE b

\* variant: a prefix taken without lower-casing
VoicePrefix_NoLower(v) == SubSeq(v, 1, Min(3, Len(v)))

\* line 117: voice_name[:3].lower()
VoicePrefix(v) == [i \in 1..Min(3, Len(v)) |-> Lower(v[i])]

\* line 118: LANG_MAP.get(prefix, "a")
LangCode(v) ==
    IF VoicePrefix(v) \in DOMAIN LANG_MAP THEN LANG_MAP[VoicePrefix(v)] ELSE DefaultKey

NoHandle == [key |-> "", serial |-> 0]

\* variant: a lookup that drops the membership test
NotRegistered_Always(v, code) == TRUE

\* line 120: lang_code not in pipelines
NotRegistered(v, code) == code \notin DOMAIN pipelines

\* get_pipeline_for_voice(v); ctor_ok is whether KPipeline(...) returns rather than
\* raises.  A raise leaves the dictionary as it was and nothing is returned.
GetPipeline(v, ctor_ok) ==
    LET code == LangCode(v) IN
    /\ voice_name' = v
    /\ lang_code' = code
    /\ IF NotRegistered(v, code)
       THEN IF ctor_ok
            THEN LET h == [key |-> code, serial |-> constructions[code] + 1] IN
                 /\ pipelines' = (code :> h) @@ pipelines
                 /\ constructions' = [constructions EXCEPT ![code] = @ + 1]
                 /\ constructed' = TRUE
                 /\ handle' = h
            ELSE /\ UNCHANGED <<pipelines, constructions>>
                 /\ constructed' = FALSE
                 /\ handle' = NoHandle
       ELSE /\ UNCHANGED <<pipelines, constructions>>
            /\ constructed' = FALSE
            /\ handle' = pipelines[code]

\* A call of get_pipeline_for_voice on its own
ResolveVoice(v, ctor_ok) ==
    /\ web_pc = "idle"
    /\ GetPipeline(v, ctor_ok)
    /\ UNCHANGED <<mainVars, saveVars, obsVars, engine_call, reqVars, concVars>>

\* ------------------------------------------- get_pipeline_for_voice, threads

\* Gradio runs generate_tts_with_logs on worker threads; nothing in the module
\* guards pipelines.  A thread's call is four steps, each a single access to the
\* shared dictionary or none: the membership test of line 120, the constructor
\* call on the right of line 124/127, the assignment on its left, and the read
\* of line 128.
Threads == 1..MaxThreads

IdleThread == [pc |-> "idle", code |-> "", built |-> NoHandle, ret |-> NoHandle]

\* variant: an assignment that keeps the handle already stored for the key
StoreHandle_KeepFirst(d, k, h) == IF k \in DOMAIN d THEN d ELSE (k :> h) @@ d

\* lines 124/127: pipelines[lang_code] = <the constructed KPipeline>
StoreHandle(d, k, h) == (k :> h) @@ d

\* lines 117-120 in thread t
ThreadEnter(t, v) ==
    LET code == LangCode(v) IN
    /\ web_pc = "idle"
    /\ thr[t].pc = "idle"
    /\ calls < MaxCalls
    /\ calls' = calls + 1
    /\ thr' = [thr EXCEPT ![t] =
                 [pc |-> IF NotRegistered(v, code) THEN "construct" ELSE "return",
                  code |-> code, built |-> NoHandle, ret |-> NoHandle]]
    /\ overlapped' =
          IF \E u \in Threads \ {t} : thr[u].pc # "idle" /\ thr[u].code = code
          THEN [overlapped EXCEPT ![code] = TRUE]
          ELSE overlapped
    /\ UNCHANGED <<stores, routerVars, reqVars>>
    /\ UNCHANGED <<mainVars, saveVars, obsVars, engine_call>>

\* KPipeline(lang_code=..., model=...) in thread t; a raise ends the call
ThreadConstruct(t, ctor_ok) ==
    LET code == thr[t].code IN
    /\ thr[t].pc = "construct"
    /\ IF ctor_ok
       THEN /\ constructions' = [constructions EXCEPT ![code] = @ + 1]
            /\ thr' = [thr EXCEPT ![t].pc = "store",
                                  ![t].built = [key |-> code,
                                                serial |-> constructions[code] + 1]]
       ELSE /\ thr' = [thr EXCEPT ![t] = IdleThread]
            /\ UNCHANGED constructions
    /\ UNCHANGED <<pipelines, voice_name, lang_code, handle, constructed>>
    /\ UNCHANGED <<calls, overlapped, stores, reqVars>>
    /\ UNCHANGED <<mainVars, saveVars, obsVars, engine_call>>

\* the assignment into pipelines in thread t
ThreadStore(t) ==
    /\ thr[t].pc = "store"
    /\ pipelines' = StoreHandle(pipelines, thr[t].code, thr[t].built)
    /\ stores' = Append(stores, thr[t].built)
    /\ thr' = [thr EXCEPT ![t].pc = "return"]
    /\ UNCHANGED <<constructions, voice_name, lang_code, handle, constructed>>
    /\ UNCHANGED <<calls, overlapped, reqVars>>
    /\ UNCHANGED <<mainVars, saveVars, obsVars, engine_call>>

\* line 128 in thread t: return pipelines[lang_code]
ThreadReturn(t) ==
    /\ thr[t].pc = "return"
    /\ thr' = [thr EXCEPT ![t] = [IdleThread EXCEPT !.ret = pipelines[thr[t].code]]]
    /\ UNCHANGED <<calls, overlapped, stores, routerVars, reqVars>>
    /\ UNCHANGED <<mainVars, saveVars, obsVars, engine_call>>

\* ------------------------------------------------------------ convert_audio

Formats == {"wav", "mp3", "aac", "ogg"}

NoPath == [dir |-> "", base |-> <<>>, ext |-> ""]

\* os.path.join(DEFAULT_OUTPUT_DIR, f"{base_name}.{ext}")
OutPath(base, ext) == [dir |-> "outputs", base |-> base, ext |-> ext]

FromWav(path) == [op |-> "from_wav", path |-> path, format |-> "wav", bitrate |-> 0]
Export(path, f) == [op |-> "export", path |-> path, format |-> f, bitrate |-> Bitrate]

\* variant: a dispatch whose unrecognized-format branch falls through to the export result
ConvertAudio_FallsThrough(input_path, output_path, f, export_ok) ==
    IF f = "wav"
    THEN [raised |-> FALSE, ret |-> input_path, calls |-> <<>>, created |-> {}]
    ELSE IF f \in {"mp3", "aac"}
    THEN IF export_ok
         THEN [raised |-> FALSE, ret |-> output_path,
               calls |-> <<FromWav(input_path), Export(output_path, f)>>,
               created |-> {output_path}]
         ELSE [raised |-> TRUE, ret |-> NoPath,
               calls |-> <<FromWav(input_path), Export(output_path, f)>>,
               created |-> {}]
    ELSE [raised |-> FALSE, ret |-> output_path,
          calls |-> <<FromWav(input_path)>>, created |-> {}]

\* convert_audio(input_path, output_path, fmt): what it returns, the codec calls it
\* makes and the files they create; export_ok is whether audio.export returns
\* rather than raises.
ConvertAudio(input_path, output_path, f, export_ok) ==
    IF f = "wav"
    THEN [raised |-> FALSE, ret |-> input_path, calls |-> <<>>, created |-> {}]
    ELSE IF f \in {"mp3", "aac"}
    THEN IF export_ok
         THEN [raised |-> FALSE, ret |-> output_path,
               calls |-> <<FromWav(input_path), Export(output_path, f)>>,
               created |-> {output_path}]
         ELSE [raised |-> TRUE, ret |-> NoPath,
               calls |-> <<FromWav(input_path), Export(output_path, f)>>,
               created |-> {}]
    ELSE [raised |-> FALSE, ret |-> input_path,
          calls |-> <<FromWav(input_path)>>, created |-> {}]

\* A call of convert_audio on its own, input_path naming a WAV file of voice v
ConvertCall(v, f, export_ok) ==
    LET inp == OutPath(v, "wav")
        out == OutPath(v, f)
        conv == ConvertAudio(inp, out, f, export_ok) IN
    /\ web_pc = "idle"
    /\ web_pc' = "returned"
    /\ conv_args' = [input_path |-> inp, output_path |-> out, fmt |-> f]
    /\ conv_ret' = conv.ret
    /\ codec_calls' = conv.calls
    /\ web_writes' = conv.created
    /\ web_outcome' = IF conv.raised THEN "convert_raised" ELSE "converted"
    /\ UNCHANGED <<fmt, web_audio, web_pulled, web_final, web_result>>
    /\ UNCHANGED <<mainVars, saveVars, obsVars, engine_call, routerVars, concVars>>

\* ------------------------------------------------------------ generate_tts_with_logs

NoConvArgs == [input_path |-> NoPath, output_path |-> NoPath, fmt |-> ""]

\* Lines 159-180: the pipeline is chosen and invoked.  A raise of KPipeline(...)
\* reaches the except clause of line 214.
WebRequest(v, n, f, ctor_ok) ==
    /\ web_pc = "idle"
    /\ GetPipeline(v, ctor_ok)
    /\ fmt' = f
    /\ web_audio' = <<>>
    /\ web_pulled' = <<>>
    /\ web_final' = NoAudio
    /\ web_writes' = {}
    /\ conv_args' = NoConvArgs
    /\ conv_ret' = NoPath
    /\ codec_calls' = <<>>
    /\ web_result' = NoPath
    /\ IF NotRegistered(v, LangCode(v)) /\ ~ctor_ok
       THEN /\ web_pc' = "returned"
            /\ web_outcome' = "ctor_error"
            /\ UNCHANGED engine_call
       ELSE /\ web_pc' = "stream"
            /\ web_outcome' = "running"
            /\ engine_call' = EngineCall("web", n, WebSpeed)
    /\ UNCHANGED <<mainVars, saveVars, obsVars, concVars>>

\* Lines 181-193: one iteration of the for loop
WebSegment(kind) ==
    LET audio_tensor == SegmentAudio(Len(web_pulled) + 1, kind) IN
    /\ web_pc = "stream"
    /\ web_pulled' = Append(web_pulled, audio_tensor)
    /\ web_audio' = Accumulate(web_audio, audio_tensor)
    /\ UNCHANGED <<web_pc, fmt, web_final, web_writes, conv_args, conv_ret,
                   codec_calls, web_result, web_outcome>>
    /\ UNCHANGED <<mainVars, saveVars, obsVars, engine_call, routerVars, concVars>>

\* The generator raises inside the for loop: the except clause of line 214
WebStreamError ==
    /\ web_pc = "stream"
    /\ web_pc' = "returned"
    /\ web_outcome' = "stream_error"
    /\ web_result' = NoPath
    /\ UNCHANGED <<fmt, web_audio, web_pulled, web_final, web_writes, conv_args,
                   conv_ret, codec_calls>>
    /\ UNCHANGED <<mainVars, saveVars, obsVars, engine_call, routerVars, concVars>>

\* Lines 195-218 once the generator is exhausted; write_ok is whether sf.write
\* returns rather than raises, export_ok likewise for audio.export.
WebFinish(write_ok, export_ok) ==
    LET cat == TorchCat(web_audio)
        wav_path == OutPath(voice_name, "wav")
        out_file == OutPath(voice_name, fmt)
        conv == ConvertAudio(wav_path, out_file, fmt, export_ok) IN
    /\ web_pc = "stream"
    /\ web_pc' = "returned"
    /\ IF web_audio = <<>>
       THEN /\ web_outcome' = "empty"
            /\ UNCHANGED <<web_final, web_writes, conv_args, conv_ret, codec_calls,
                           web_result>>
       ELSE IF ~cat.ok
       THEN /\ web_outcome' = "concat_error"
            /\ UNCHANGED <<web_final, web_writes, conv_args, conv_ret, codec_calls,
                           web_result>>
       ELSE IF ~write_ok
       THEN /\ web_outcome' = "write_error"
            /\ web_final' = cat.val
            /\ UNCHANGED <<web_writes, conv_args, conv_ret, codec_calls, web_result>>
       ELSE IF fmt # "wav"
       THEN /\ web_final' = cat.val
            /\ conv_args' = [input_path |-> wav_path, output_path |-> out_file,
                             fmt |-> fmt]
            /\ conv_ret' = conv.ret
            /\ codec_calls' = conv.calls
            /\ web_writes' = {wav_path} \cup conv.created
            /\ web_result' = conv.ret
            /\ web_outcome' = IF conv.raised THEN "convert_error" ELSE "ok"
       ELSE /\ web_final' = cat.val
            /\ web_writes' = {wav_path}
            /\ web_result' = wav_path
            /\ web_outcome' = "ok"
            /\ UNCHANGED <<conv_args, conv_ret, codec_calls>>
    /\ UNCHANGED <<fmt, web_audio, web_pulled>>
    /\ UNCHANGED <<mainVars, saveVars, obsVars, engine_call, routerVars, concVars>>

\* generate_tts_with_logs (or convert_audio) has returned: its frame is gone, and
\* what remains is the dictionary pipelines
WebIdle ==
    /\ web_pc = "returned"
    /\ web_pc' = "idle"
    /\ voice_name' = <<>>
    /\ lang_code' = ""
    /\ handle' = NoHandle
    /\ constructed' = FALSE
    /\ fmt' = ""
    /\ web_audio' = <<>>
    /\ web_pulled' = <<>>
    /\ web_final' = NoAudio
    /\ web_writes' = {}
    /\ conv_args' = NoConvArgs
    /\ conv_ret' = NoPath
    /\ codec_calls' = <<>>
    /\ web_result' = NoPath
    /\ web_outcome' = "none"
    /\ engine_call' = NoCall
    /\ UNCHANGED <<pipelines, constructions>>
    /\ UNCHANGED <<mainVars, saveVars, obsVars, concVars>>

\* ------------------------------------------------------------ specifications

RetryDelays == {1, 2}
RawLens == {0, MaxTextLen, MaxTextLen + 1}
WebLens == {0, MaxTextLen, MaxTextLen + 1}
SpeedInputs ==
    {<<EmptyInput>>, <<Num(MaxSpeed)>>, <<Num(MinSpeed - 1), Num(MinSpeed)>>,
     <<BadInput, Num(MaxSpeed + 1), EmptyInput>>}
Delays == {0, max_segment_time + 1}
TimedDelays == {0, max_segment_time, max_segment_time + 1}
ProcDelays == {0, 1}
StartClocks == {7}
WebVoices == {<<"F", "f", "_", "x">>, <<"a", "m", "_">>, <<"x">>}
RouterVoices ==
    {p \o q : p \in {<<>>, <<"x">>, <<"a", "f", "_">>, <<"A", "M", "_">>,
                      <<"F", "f", "_">>, <<"b", "m", "_">>, <<"f", "_">>},
              q \in {<<>>, <<"x">>, <<"f", "f", "_">>}}
Chars == {"a", "f", "F", "_", "x"}
VoiceIds == UNION {[1..n -> Chars] : n \in 0..MaxVoiceLen}

InitMain ==
    /\ model = "unbound"
    /\ voices_cache = "unbound"
    /\ text_len = 0
    /\ speed = 0
    /\ all_audio = <<>>
    /\ clock = 0
    /\ start_time = 0
    /\ segment_start_time = 0
    /\ current_time = 0
    /\ generation_complete = FALSE
    /\ watchdogs = 0
    /\ final_audio = NoAudio

InitSave ==
    /\ max_retries = 0
    /\ retry_delay = 0
    /\ attempt = 0
    /\ save_result = "none"
    /\ written = NoAudio
    /\ ioLog = <<>>

InitObs ==
    /\ pulled = <<>>
    /\ elapsed = 0
    /\ arrival_elapsed = 0
    /\ last_wait = 0
    /\ last_gap = 0
    /\ prev_arrival = 0
    /\ loop_exit = "none"
    /\ outcome = "none"
    /\ cleanup_runs = 0
    /\ attempted = {}
    /\ failed = {}
    /\ escaped = FALSE
    /\ engine_call = NoCall

InitConc ==
    /\ thr = [t \in Threads |-> IdleThread]
    /\ calls = 0
    /\ overlapped = [k \in EngineKeys |-> FALSE]
    /\ stores = <<>>

InitWeb ==
    /\ pipelines = <<>>
    /\ constructions = [k \in EngineKeys |-> 0]
    /\ voice_name = <<>>
    /\ lang_code = ""
    /\ handle = NoHandle
    /\ constructed = FALSE
    /\ fmt = ""
    /\ web_audio = <<>>
    /\ web_pulled = <<>>
    /\ web_final = NoAudio
    /\ web_writes = {}
    /\ conv_args = NoConvArgs
    /\ conv_ret = NoPath
    /\ codec_calls = <<>>
    /\ web_result = NoPath
    /\ web_outcome = "none"
    /\ InitConc

\* Either program is started: tts_demo.py (pc = "start") or gradio_interface.py
\* (web_pc = "idle")
Init ==
    /\ InitMain /\ InitSave /\ InitObs /\ InitWeb
    /\ pc \in {"start", "off"}
    /\ web_pc = IF pc = "off" THEN "idle" ELSE "off"

NextMain ==
    \/ \E ok \in BOOLEAN : BuildModel(ok)
    \/ \E res \in {"list", "empty", "raise"} : ListVoices(res)
    \/ InvalidChoice
    \/ ExitChoice
    \/ MenuRaises
    \/ \E lv \in {"list", "empty"}, raw \in RawLens, sp_in \in SpeedInputs,
          voice_exists \in BOOLEAN, init_ok \in BOOLEAN :
          Generate(lv, raw, sp_in, voice_exists, 0, init_ok)
    \/ \E d \in Delays, kind \in AudioKinds :
          Len(pulled) < MaxSegments /\ ConsumeSegment(d, 0, kind)
    \/ StreamEnd
    \/ StreamError
    \/ \E numpy_ok \in BOOLEAN : Combine(numpy_ok)
    \/ \E ok \in BOOLEAN : SaveAttempt(ok)
    \/ AfterSave
    \/ ReturnToMenu
    \/ \E raising \in SUBSET GuardedSteps, probe \in Probes : Cleanup(raising, probe)

NextWeb ==
    \/ \E v \in WebVoices, n \in WebLens, f \in Formats, ctor_ok \in BOOLEAN :
          WebRequest(v, n, f, ctor_ok)
    \/ \E kind \in AudioKinds : Len(web_pulled) < MaxSegments /\ WebSegment(kind)
    \/ WebStreamError
    \/ \E write_ok \in BOOLEAN, export_ok \in BOOLEAN : WebFinish(write_ok, export_ok)
    \/ \E v \in WebVoices, f \in Formats, export_ok \in BOOLEAN :
          ConvertCall(v, f, export_ok)
    \/ WebIdle

Next == NextMain \/ NextWeb

Spec == Init /\ [][Next]_vars

\* The interactive session with a generator whose delays are the inputs
InitTiming ==
    /\ InitMain /\ InitSave /\ InitObs /\ InitWeb
    /\ pc = "start"
    /\ web_pc = "off"

NextTiming ==
    \/ \E ok \in BOOLEAN : BuildModel(ok)
    \/ ExitChoice
    \/ \E t0 \in StartClocks :
          Generate("list", 0, <<EmptyInput>>, TRUE, t0, TRUE)
    \/ \E d \in TimedDelays, p \in ProcDelays, kind \in {"none", "mono"} :
          Len(pulled) < MaxTimedSegments /\ ConsumeSegment(d, p, kind)
    \/ StreamEnd
    \/ StreamError
    \/ Combine(TRUE)
    \/ SaveAttempt(TRUE)
    \/ AfterSave
    \/ ReturnToMenu
    \/ Cleanup({}, "unavailable")

SpecTiming == InitTiming /\ [][NextTiming]_vars

\* save_audio_with_retry called on its own
InitRetry ==
    /\ model = "unbound" /\ voices_cache = "unbound" /\ text_len = 0 /\ speed = 0
    /\ all_audio = <<>> /\ clock = 0 /\ start_time = 0 /\ segment_start_time = 0
    /\ current_time = 0 /\ generation_complete = FALSE /\ watchdogs = 0
    /\ final_audio \in {SegmentAudio(1, "mono"), SegmentAudio(2, "mono"),
                         SegmentAudio(1, "wide")}
    /\ InitObs /\ InitWeb
    /\ pc = "write"
    /\ web_pc = "off"
    /\ max_retries \in 0..MaxRetries
    /\ retry_delay \in RetryDelays
    /\ attempt = 0
    /\ save_result = "none"
    /\ written = NoAudio
    /\ ioLog = <<>>

NextRetry == \E ok \in BOOLEAN : SaveAttempt(ok)

SpecRetry == InitRetry /\ [][NextRetry]_vars

\* get_pipeline_for_voice called on its own, over and over
InitRouter ==
    /\ InitMain /\ InitSave /\ InitObs /\ InitWeb
    /\ pc = "off"
    /\ web_pc = "idle"

NextRouter == \E v \in RouterVoices, ctor_ok \in BOOLEAN : ResolveVoice(v, ctor_ok)

SpecRouter == InitRouter /\ [][NextRouter]_vars

\* get_pipeline_for_voice called by request threads that interleave
ThreadVoices == {<<"a", "f", "_">>, <<"b", "m", "_">>, <<"x">>}

InitConcurrent ==
    /\ InitMain /\ InitSave /\ InitObs /\ InitWeb
    /\ pc = "off"
    /\ web_pc = "idle"

NextConcurrent ==
    \E t \in Threads :
        \/ \E v \in ThreadVoices : ThreadEnter(t, v)
        \/ \E ctor_ok \in BOOLEAN : ThreadConstruct(t, ctor_ok)
        \/ ThreadStore(t)
        \/ ThreadReturn(t)

SpecConcurrent == InitConcurrent /\ [][NextConcurrent]_vars

\* get_pipeline_for_voice called once, on any voice identifier
InitLookup ==
    /\ InitMain /\ InitSave /\ InitObs
    /\ pc = "off"
    /\ web_pc = "idle"
    /\ pipelines = <<>>
    /\ constructions = [k \in EngineKeys |-> 0]
    /\ voice_name \in VoiceIds
    /\ lang_code = ""
    /\ handle = NoHandle
    /\ constructed = FALSE
    /\ fmt = ""
    /\ web_audio = <<>>
    /\ web_pulled = <<>>
    /\ web_final = NoAudio
    /\ web_writes = {}
    /\ conv_args = NoConvArgs
    /\ conv_ret = NoPath
    /\ codec_calls = <<>>
    /\ web_result = NoPath
    /\ web_outcome = "none"
    /\ InitConc

NextLookup == \E ctor_ok \in BOOLEAN : lang_code = "" /\ ResolveVoice(voice_name, ctor_ok)

SpecLookup == InitLookup /\ [][NextLookup]_vars

\* ------------------------------------------------------------ properties

Front(q) == SubSeq(q, 1, Len(q) - 1)
AudioOf(segs) == SelectSeq(segs, LAMBDA a : a # NoAudio)

RECURSIVE SumLen(_)
SumLen(bufs) == IF bufs = <<>> THEN 0 ELSE Len(Head(bufs).data) + SumLen(Tail(bufs))

Compatible(bufs) == \A i, j \in 1..Len(bufs) : bufs[i].shape = bufs[j].shape

\* joined holds the buffers of bufs one after the other, in their order
JoinedInOrder(joined, bufs) ==
    /\ Len(joined.data) = SumLen(bufs)
    /\ \A i \in 1..Len(bufs) : \A j \in 1..Len(bufs[i].data) :
          joined.data[SumLen(SubSeq(bufs, 1, i - 1)) + j] = bufs[i].data[j]

Combined(result, bufs) ==
    /\ bufs # <<>>
    /\ Len(bufs) = 1 => result = bufs[1]
    /\ Len(bufs) >= 2 => Compatible(bufs) /\ JoinedInOrder(result, bufs)

\* k failed writes, each followed by one sleep of d seconds
FailedAttempts(k, d) ==
    [i \in 1..(2 * k) |-> IF i % 2 = 1 THEN WriteEv(FALSE) ELSE SleepEv(d)]

\* C1: save_audio_with_retry makes max_retries write attempts when every one fails
\* and only then returns False; it returns True at the first attempt that
\* succeeds, with no attempt after it; one sleep of retry_delay separates
\* consecutive attempts, and none follows the last.
C1_RetryContract ==
    /\ pc = "write" =>
          /\ ioLog = FailedAttempts(attempt, retry_delay)
          /\ attempt = 0 \/ attempt < max_retries
          /\ save_result = "none"
    /\ (pc = "saved" /\ save_result = "true") =>
          /\ attempt < max_retries
          /\ ioLog = FailedAttempts(attempt, retry_delay) \o <<WriteEv(TRUE)>>
          /\ written = final_audio
    /\ (pc = "saved" /\ save_result = "false") =>
          /\ ioLog = IF max_retries = 0 THEN <<>>
                     ELSE FailedAttempts(max_retries - 1, retry_delay)
                          \o <<WriteEv(FALSE)>>
          /\ written = NoAudio
    /\ pc = "saved" => save_result \in {"true", "false"}

C1_Witness ==
    /\ pc = "saved" /\ save_result = "false"
    /\ max_retries = 3 /\ Len(ioLog) = 5

\* C2: over any sequence of get_pipeline_for_voice calls, at most one KPipeline is
\* constructed per EngineKey; the handle stored for a key is the first one
\* constructed for it, and every call that returns, returns that handle.
C2_ConstructedOnce ==
    /\ \A k \in EngineKeys :
          /\ constructions[k] <= 1
          /\ k \in DOMAIN pipelines <=> constructions[k] = 1
          /\ k \in DOMAIN pipelines => pipelines[k] = [key |-> k, serial |-> 1]
    /\ handle # NoHandle => handle = [key |-> lang_code, serial |-> 1]
    /\ (lang_code # "" /\ ~constructed /\ handle # NoHandle) =>
          handle = pipelines[lang_code]

C2_Witness ==
    /\ lang_code = "b" /\ handle = [key |-> "b", serial |-> 1]
    /\ ~constructed
    /\ constructions["b"] = 1

\* p is a prefix of v, letters compared without regard to case
IsPrefixIgnoringCase(p, v) ==
    /\ Len(p) <= Len(v)
    /\ \A i \in 1..Len(p) : Lower(v[i]) = p[i]

ExpectedKey(v) ==
    IF \E p \in DOMAIN LANG_MAP : IsPrefixIgnoringCase(p, v)
    THEN LANG_MAP[CHOOSE p \in DOMAIN LANG_MAP : IsPrefixIgnoringCase(p, v)]
    ELSE DefaultKey

\* C3: a voice identifier that starts (case-insensitively) with a prefix of the
\* table resolves to the key the table gives that prefix; every other identifier,
\* the empty one and those shorter than a prefix included, resolves to "a"; the
\* handle returned is the one of that key.
C3_PrefixRouting ==
    lang_code # "" =>
        /\ lang_code = ExpectedKey(voice_name)
        /\ handle # NoHandle => handle.key = ExpectedKey(voice_name)

C3_Witness ==
    /\ voice_name = <<"F", "f", "_", "x">>
    /\ lang_code = "f"
    /\ handle.key = "f"

\* C4: a segment is appended only if it arrived within max_gen_time of the start;
\* the first one that arrives later ends the loop without being appended, so that
\* all_audio holds the audio of the segments before it; the loop is left the
\* normal way and what was accumulated is saved.
C4_TotalBudget ==
    /\ loop_exit # "total" => arrival_elapsed <= max_gen_time
    /\ loop_exit = "total" =>
          /\ arrival_elapsed > max_gen_time
          /\ all_audio = AudioOf(Front(pulled))
          /\ generation_complete
          /\ pc \in {"combine", "write", "saved", "finished"}
    /\ (loop_exit = "total" /\ pc = "finished") =>
          IF all_audio = <<>> THEN outcome = "empty"
          ELSE outcome = "saved" /\ written.data = Flatten(all_audio)
    /\ pc = "consume" => all_audio = AudioOf(pulled)

C4_Witness ==
    /\ loop_exit = "total" /\ pc = "finished" /\ outcome = "saved"
    /\ Len(all_audio) >= 3
    /\ last_wait <= max_segment_time

\* C5: a segment that arrives more than max_segment_time after the previous loop
\* body ended stops the loop and is not appended, whatever the total elapsed time;
\* the loop stops on the segment budget only when more than max_segment_time has
\* passed since the arrival of the latest segment that passed the checks.
C5_SegmentBudget ==
    /\ last_wait > max_segment_time =>
          /\ loop_exit \in {"total", "segment"}
          /\ all_audio = AudioOf(Front(pulled))
    /\ loop_exit = "segment" =>
          /\ last_gap > max_segment_time
          /\ arrival_elapsed <= max_gen_time
          /\ all_audio = AudioOf(Front(pulled))
          /\ pc \in {"combine", "write", "saved", "finished"}

C5_Witness ==
    /\ loop_exit = "segment"
    /\ Len(all_audio) >= 2
    /\ last_wait > max_segment_time
    /\ arrival_elapsed < max_gen_time

\* C6: in either front-end, an error the engine raises after k segments were
\* accumulated stops consumption, and the request goes on with those k segments:
\* they are combined and, if k >= 1, handed to the file write.
C6_ErrorKeepsPartial ==
    /\ (loop_exit = "error" /\ pc = "finished" /\ all_audio # <<>>
         /\ Compatible(all_audio)) =>
          outcome \in {"saved", "save_failed", "processing_error"}
    /\ (web_outcome = "stream_error" /\ web_audio # <<>> /\ Compatible(web_audio)) =>
          web_final # NoAudio

\* C7: no buffer: the request fails with nothing written; one buffer: it is used
\* as it is; two or more: the result holds them one after the other in their
\* order, its length the sum of theirs; a failed concatenation is reported and
\* nothing is written.
C7_Combine ==
    /\ (pc = "finished" /\ loop_exit # "none" /\ all_audio = <<>>) =>
          outcome = "empty" /\ ioLog = <<>> /\ written = NoAudio
    /\ (pc = "finished" /\ loop_exit # "none" /\ all_audio # <<>>) =>
          IF Len(all_audio) >= 2 /\ ~Compatible(all_audio)
          THEN outcome = "concat_error" /\ ioLog = <<>> /\ written = NoAudio
          ELSE outcome \in {"saved", "save_failed", "processing_error"}
    /\ pc \in {"write", "saved"} => Combined(final_audio, all_audio)
    /\ (pc = "finished" /\ outcome \in {"saved", "save_failed"}) =>
          Combined(final_audio, all_audio)
    /\ written # NoAudio => written = final_audio
    /\ (web_pc = "returned" /\ web_outcome \in {"empty", "stream_error"}) =>
          web_final = NoAudio /\ web_writes = {} /\ web_result = NoPath
    /\ (web_pc = "returned" /\ web_outcome \notin {"ctor_error", "stream_error",
                                                     "converted", "convert_raised"}) =>
          IF web_audio = <<>> THEN web_outcome = "empty"
          ELSE IF ~Compatible(web_audio)
          THEN /\ web_outcome = "concat_error"
               /\ web_final = NoAudio /\ web_writes = {} /\ web_result = NoPath
          ELSE /\ web_outcome \in {"ok", "write_error", "convert_error"}
               /\ Compatible(web_audio)
               /\ JoinedInOrder(web_final, web_audio)
               /\ Len(web_audio) = 1 => web_final = web_audio[1]

C7_Witness ==
    /\ pc = "finished" /\ outcome = "saved"
    /\ Len(all_audio) = 3
    /\ Len(written.data) = 5

\* C8: the engine is only ever invoked with a text of at most 10000 characters
\* and a speed within [0.5, 2.0], whichever front-end the request came through.
C8_RequestInvariant ==
    engine_call # NoCall =>
        /\ engine_call.text_len <= MaxTextLen
        /\ MinSpeed <= engine_call.speed /\ engine_call.speed <= MaxSpeed

\* C9: however the interactive session ends, the finally block runs once, no
\* exception leaves it, and each of its steps is attempted whatever the steps
\* before it did.
C9_CleanupAlways ==
    pc = "done" =>
        /\ cleanup_runs = 1
        /\ ~escaped
        /\ {"cuda_probe", "patches", "gc"} \subseteq attempted
        /\ model # "unbound" => ModelSteps \subseteq attempted

IsExport(c) == c.op = "export"

\* C10: convert_audio returns input_path and calls no codec for "wav"; for "mp3"
\* and "aac" it exports to output_path at 192k and returns output_path; for any
\* other format it returns input_path, exports nothing and does not raise, and
\* generate_tts_with_logs returns that WAV path.
C10_Transcode ==
    /\ conv_args # NoConvArgs =>
          LET f == conv_args.fmt
              raised == web_outcome \in {"convert_raised", "convert_error"} IN
          /\ f = "wav" =>
                /\ conv_ret = conv_args.input_path
                /\ codec_calls = <<>>
                /\ ~raised
          /\ f \in {"mp3", "aac"} =>
                /\ \E i \in DOMAIN codec_calls :
                      codec_calls[i] = [op |-> "export", path |-> conv_args.output_path,
                                        format |-> f, bitrate |-> Bitrate]
                /\ ~raised => /\ conv_ret = conv_args.output_path
                              /\ conv_args.output_path \in web_writes
          /\ f \notin {"wav", "mp3", "aac"} =>
                /\ conv_ret = conv_args.input_path
                /\ ~raised
                /\ \A i \in DOMAIN codec_calls : ~IsExport(codec_calls[i])
                /\ conv_args.output_path \notin web_writes
    /\ web_outcome = "ok" =>
          /\ web_result = IF fmt \in {"mp3", "aac"} THEN OutPath(voice_name, fmt)
                          ELSE OutPath(voice_name, "wav")
          /\ fmt = "wav" => conv_args = NoConvArgs
          /\ fmt # "wav" => web_result = conv_ret

C10_Witness ==
    /\ web_outcome = "ok" /\ fmt = "ogg"
    /\ conv_args.fmt = "ogg"
    /\ web_result = OutPath(voice_name, "wav")
    /\ web_writes = {OutPath(voice_name, "wav")}

\* C11: while a request consumes the stream, and after it stopped, the
\* accumulation is the audio of the segments pulled so far that have audio, in
\* the order they were pulled, each once; a segment without audio adds nothing,
\* does not end the loop, and the segments after it are still appended.
C11_InOrderSubsequence ==
    /\ pc = "consume" => all_audio = AudioOf(pulled) /\ loop_exit = "none"
    /\ loop_exit \in {"end", "error"} => all_audio = AudioOf(pulled)
    /\ loop_exit \in {"total", "segment"} => all_audio = AudioOf(Front(pulled))
    /\ \A i \in 1..Len(pulled) :
          pulled[i] \in {SegmentAudio(i, kind) : kind \in AudioKinds}
    /\ (pulled # <<>> /\ pulled[Len(pulled)] = NoAudio
         /\ arrival_elapsed <= max_gen_time /\ last_gap <= max_segment_time) =>
          loop_exit \in {"none", "end", "error"}
    /\ web_pc = "stream" => web_audio = AudioOf(web_pulled)
    /\ (web_pc = "returned"
         /\ web_outcome \notin {"ctor_error", "converted", "convert_raised"}) =>
          web_audio = AudioOf(web_pulled)
    /\ \A i \in 1..Len(web_pulled) :
          web_pulled[i] \in {SegmentAudio(i, kind) : kind \in AudioKinds}

C11_Witness ==
    /\ pc = "consume"
    /\ Len(pulled) = 3
    /\ pulled[1] # NoAudio /\ pulled[2] = NoAudio /\ pulled[3] # NoAudio
    /\ all_audio = <<pulled[1], pulled[3]>>

StoresFor(k) == SelectSeq(stores, LAMBDA h : h.key = k)

\* C12: calls of get_pipeline_for_voice that overlap on a key not yet registered
\* can each pass the membership test and each construct an engine for the key;
\* pipelines then holds the handle assigned last.  A key whose calls never
\* overlapped has at most one engine constructed for it.
C12_UnserializedFirstUse ==
    /\ \A k \in EngineKeys :
          /\ ~overlapped[k] => constructions[k] <= 1
          /\ constructions[k] <= MaxThreads
          /\ Len(StoresFor(k)) <= constructions[k]
          /\ k \in DOMAIN pipelines <=> StoresFor(k) # <<>>
          /\ k \in DOMAIN pipelines =>
                pipelines[k] = StoresFor(k)[Len(StoresFor(k))]
    /\ \A t \in Threads :
          thr[t].ret # NoHandle => \E i \in DOMAIN stores : stores[i] = thr[t].ret

C12_Witness ==
    /\ \A t \in Threads : thr[t].pc = "idle"
    /\ constructions["b"] = 2
    /\ stores = <<[key |-> "b", serial |-> 2], [key |-> "b", serial |-> 1]>>
    /\ pipelines["b"] = [key |-> "b", serial |-> 1]
    /\ thr[1].ret # thr[2].ret

\* C13: whichever way a generate request ends, its watchdog timer has been
\* cancelled by the time control is back at the menu, so that no timer is armed
\* between requests and never more than one at a time; when the request is over
\* by normal completion or a timeout break, generation_complete is set as well.
C13_WatchdogCancelled ==
    /\ watchdogs <= 1
    /\ pc \in {"menu", "finished"} => watchdogs = 0
    /\ (pc = "finished" /\ loop_exit \in {"end", "total", "segment"}) =>
          generation_complete

====
